---- MODULE Spec2Model ----
(***************************************************************************)
(* delog.py: a line filter.  It reads standard input line by line, removes *)
(* every match of the regular expression  ESC \[ [0-9]* ; [0-9]* H  from   *)
(* the line, strips leading and trailing whitespace and prints the result. *)
(*                                                                         *)
(* Text is a sequence of characters; a character is a one-element string.  *)
(* Control characters are written by name ("ESC", "TAB", ...).             *)
(***************************************************************************)
EXTENDS Integers, Sequences, FiniteSets

VARIABLES
    stdin,      \* the whole text of standard input, as the line reader sees it
    rd,         \* number of characters of stdin consumed so far
    line,       \* the loop variable `line` (bound by the last read)
    stdout,     \* the text written to standard output so far
    pc,         \* "read": at the for statement; "print": at the print call; "exited"
    exitCode,   \* the exit status once pc = "exited" (-1 while running)
    fault,      \* the stream fault raised during this run: "none", "read", "write"
    upstream    \* earlier runs whose result is kept: <<[in |-> .., out |-> ..]>>

vars == <<stdin, rd, line, stdout, pc, exitCode, fault, upstream>>

----------------------------------------------------------------------------
(* Characters *)

ESC == "ESC"
LF  == "\n"
TAB == "\t"
CR  == "\r"

\* the characters [0-9] of the regular expression
Digits == {"0", "1", "2", "3", "4", "5", "6", "7", "8", "9"}

\* the characters str.strip() removes: the ASCII whitespace (a Python 3 str also
\* loses the other Unicode whitespace, which no input here contains)
Whitespace == {" ", TAB, LF, CR, "VT", "FF"}

----------------------------------------------------------------------------
(* regex = re.compile('\x1b\[[0-9]*;[0-9]*H') *)

At(s, i, c) == i <= Len(s) /\ s[i] = c

\* [0-9A-Za-z]* in place of [0-9]*: letters are skipped as well
RECURSIVE SkipDigitsOrLetters(_, _)
SkipDigitsOrLetters(s, i) ==
    IF i <= Len(s) /\ s[i] \notin ({ESC, "[", ";", "H"} \cup Whitespace)
    THEN SkipDigitsOrLetters(s, i + 1) ELSE i

\* [0-9]* from position i: greedy; returns the first position past the run
RECURSIVE SkipDigits(_, _)
SkipDigits(s, i) ==
    IF i <= Len(s) /\ s[i] \in Digits THEN SkipDigits(s, i + 1) ELSE i

\* the regex with the ';' optional (ESC \[ [0-9]* ;? [0-9]* H)
MatchEndOptionalSemi(s, i) ==
    IF At(s, i, ESC) /\ At(s, i + 1, "[")
    THEN LET j == SkipDigits(s, i + 2)
             k == IF At(s, j, ";") THEN SkipDigits(s, j + 1) ELSE j
         IN  IF At(s, k, "H") THEN k + 1 ELSE 0
    ELSE 0

\* a match attempt anchored at position i: the position just past the match,
\* or 0 when the regex does not match there.  The character after each digit
\* run is no digit, so giving digits back never produces another match.
MatchEnd(s, i) ==
    IF At(s, i, ESC) /\ At(s, i + 1, "[")
    THEN LET j == SkipDigits(s, i + 2)
         IN  IF At(s, j, ";")
             THEN LET k == SkipDigits(s, j + 1)
                  IN  IF At(s, k, "H") THEN k + 1 ELSE 0
             ELSE 0
    ELSE 0

\* regex.sub('', s, count=1): only the first match is dropped
SubFirstOnly(s) ==
    LET scan[i \in 1..(Len(s) + 1)] ==
            IF i > Len(s) THEN <<>>
            ELSE IF MatchEnd(s, i) # 0 THEN SubSeq(s, MatchEnd(s, i), Len(s))
            ELSE <<s[i]>> \o scan[i + 1]
    IN  scan[1]

\* regex.sub('', s): one left-to-right scan from the first position; a match is
\* dropped and the scan resumes after it, any other character is kept
Sub(s) ==
    LET scan[i \in 1..(Len(s) + 1)] ==
            IF i > Len(s) THEN <<>>
            ELSE IF MatchEnd(s, i) # 0 THEN scan[MatchEnd(s, i)]
            ELSE <<s[i]>> \o scan[i + 1]
    IN  scan[1]

----------------------------------------------------------------------------
(* str.strip() *)

\* the first position from i on that holds no whitespace (Len(s) + 1 if none)
RECURSIVE LStrip(_, _)
LStrip(s, i) == IF i <= Len(s) /\ s[i] \in Whitespace THEN LStrip(s, i + 1) ELSE i

\* the last position from j down to i that holds no whitespace (i - 1 if none)
RECURSIVE RStrip(_, _, _)
RStrip(s, i, j) == IF j >= i /\ s[j] \in Whitespace THEN RStrip(s, i, j - 1) ELSE j

\* str.lstrip() in place of str.strip()
StripLeftOnly(s) == SubSeq(s, LStrip(s, 1), Len(s))

\* at most one whitespace character removed at each end
StripOnce(s) ==
    SubSeq(s, IF s # <<>> /\ s[1] \in Whitespace THEN 2 ELSE 1,
              IF Len(s) > 1 /\ s[Len(s)] \in Whitespace THEN Len(s) - 1 ELSE Len(s))

\* s.strip(): scan in from both ends, keep what lies between
Strip(s) == SubSeq(s, LStrip(s, 1), RStrip(s, LStrip(s, 1), Len(s)))

\* strip first, substitute afterwards
CleanStripFirst(s) == Sub(Strip(s))

\* regex.sub('', line).strip()
Clean(s) == Strip(Sub(s))

\* print(x): x followed by one newline
PrintOut(s) == s \o <<LF>>

----------------------------------------------------------------------------
(* for line in sys.stdin *)

\* the end of the line that starts at position i: its newline, or the end of
\* the text when the last line is unterminated
RECURSIVE LineEndFrom(_, _)
LineEndFrom(s, i) ==
    IF i >= Len(s) THEN Len(s)
    ELSE IF s[i] = LF THEN i ELSE LineEndFrom(s, i + 1)

\* a text made of the given lines, each ended by a newline; the last line is
\* left unterminated when term is FALSE
RECURSIVE Join(_)
Join(ls) == IF ls = <<>> THEN <<>> ELSE Head(ls) \o <<LF>> \o Join(Tail(ls))

TextOf(ls, term) ==
    LET t == Join(ls)
    IN  IF term \/ t = <<>> THEN t ELSE SubSeq(t, 1, Len(t) - 1)

----------------------------------------------------------------------------
(* Inputs *)

\* the most lines of an input text
MaxLines == 3

\* the most characters of an enumerated single line
MaxLen == 4

\* the most lines of each input of a pair of runs
MaxTwinLines == 2

\* ESC[12;5H Hello World ESC[0;0H and two spaces
HelloLine ==
    <<ESC, "[", "1", "2", ";", "5", "H", "H", "e", "l", "l", "o", " ", "W", "o", "r",
      "l", "d", ESC, "[", "0", ";", "0", "H", " ", " ">>

\* two spaces, plain text, two spaces
PlainLine == <<" ", " ", "p", "l", "a", "i", "n", " ", "t", "e", "x", "t", " ", " ">>

\* ESC[1;1H alone
OnlyEscapeLine == <<ESC, "[", "1", ";", "1", "H">>

\* an occurrence cut in two by a line boundary: ESC[1;  and  5H
SplitHead == <<"a", ESC, "[", "1", ";">>
SplitTail == <<"5", "H", "b">>

\* whitespace only, ended by a carriage return (a CR LF line read untranslated)
BlankLine == <<" ", TAB, CR>>

\* ESC[1 ESC[2;3H ;5H : one occurrence inside the characters of another
EmbeddedLine == <<ESC, "[", "1", ESC, "[", "2", ";", "3", "H", ";", "5", "H">>

\* other escape sequences: ESC[0m x ESC[2J ESC[H ESC[5H ESC[1a;2H
OtherEscapesLine ==
    <<ESC, "[", "0", "m", "x", ESC, "[", "2", "J", ESC, "[", "H", ESC, "[", "5", "H",
      ESC, "[", "1", "a", ";", "2", "H">>

StreamLines == {HelloLine, PlainLine, OnlyEscapeLine, SplitHead, SplitTail, BlankLine, <<>>}

Streams ==
    {TextOf(ls, term) : ls \in UNION {[1..n -> StreamLines] : n \in 0..MaxLines},
                        term \in BOOLEAN}

\* the single-line inputs: every line of at most MaxLen characters over a small
\* alphabet, each also with one occurrence of the pattern inserted at any
\* position, and the long examples
Alphabet == {ESC, "[", "1", ";", "H", " ", "m"}
Occurrences == {<<ESC, "[", ";", "H">>, <<ESC, "[", "1", ";", "1", "H">>}

InsertAt(b, p, o) == SubSeq(b, 1, p) \o o \o SubSeq(b, p + 1, Len(b))

ShortLines == UNION {[1..n -> Alphabet] : n \in 0..MaxLen}

LongLines == StreamLines \cup {EmbeddedLine, OtherEscapesLine}

TwinLines == {SplitHead, SplitTail, OnlyEscapeLine, <<" ", "a">>}

TwinStreams ==
    {TextOf(ls, term) : ls \in UNION {[1..n -> TwinLines] : n \in 0..MaxTwinLines},
                        term \in BOOLEAN}

----------------------------------------------------------------------------
(* The program *)

Start(text) ==
    /\ stdin = text
    /\ rd = 0
    /\ line = <<>>
    /\ stdout = <<>>
    /\ pc = "read"
    /\ exitCode = -1
    /\ fault = "none"
    /\ upstream = <<>>

Init == \E text \in Streams : Start(text)

\* `line += ...`: the text read is appended to what `line` already holds
ReadLineKeepBuffer ==
    /\ pc = "read"
    /\ rd < Len(stdin)
    /\ LET e == LineEndFrom(stdin, rd + 1)
       IN  /\ line' = line \o SubSeq(stdin, rd + 1, e)
           /\ rd' = e
    /\ pc' = "print"
    /\ UNCHANGED <<stdin, stdout, exitCode, fault, upstream>>

\* an empty line is taken for the end of the input
ReadLineStopAtBlank ==
    /\ pc = "read"
    /\ rd < Len(stdin)
    /\ LET e == LineEndFrom(stdin, rd + 1)
       IN  IF SubSeq(stdin, rd + 1, e) = <<LF>>
           THEN /\ pc' = "exited"
                /\ exitCode' = 0
                /\ UNCHANGED <<rd, line>>
           ELSE /\ line' = SubSeq(stdin, rd + 1, e)
                /\ rd' = e
                /\ pc' = "print"
                /\ UNCHANGED exitCode
    /\ UNCHANGED <<stdin, stdout, fault, upstream>>

\* for line in sys.stdin: the next line, its newline included
ReadLine ==
    /\ pc = "read"
    /\ rd < Len(stdin)
    /\ LET e == LineEndFrom(stdin, rd + 1)
       IN  /\ line' = SubSeq(stdin, rd + 1, e)
           /\ rd' = e
    /\ pc' = "print"
    /\ UNCHANGED <<stdin, stdout, exitCode, fault, upstream>>

\* for line in sys.stdin: end of stream ends the loop and the program
ReadEOF ==
    /\ pc = "read"
    /\ rd = Len(stdin)
    /\ pc' = "exited"
    /\ exitCode' = 0
    /\ UNCHANGED <<stdin, rd, line, stdout, fault, upstream>>

\* a line that is empty once cleaned is not printed
PrintLineSkipEmpty ==
    /\ pc = "print"
    /\ stdout' = IF Clean(line) = <<>> THEN stdout ELSE stdout \o PrintOut(Clean(line))
    /\ pc' = "read"
    /\ UNCHANGED <<stdin, rd, line, exitCode, fault, upstream>>

\* print(regex.sub('', line).strip())
PrintLine ==
    /\ pc = "print"
    /\ stdout' = stdout \o PrintOut(Clean(line))
    /\ pc' = "read"
    /\ UNCHANGED <<stdin, rd, line, exitCode, fault, upstream>>

\* the read raises: nothing catches it, the interpreter exits with status 1
ReadFault ==
    /\ pc = "read"
    /\ fault' = "read"
    /\ pc' = "exited"
    /\ exitCode' = 1
    /\ UNCHANGED <<stdin, rd, line, stdout, upstream>>

\* the write is wrapped in try/except: pass, and the loop goes on
WriteFaultSwallowed ==
    /\ pc = "print"
    /\ fault' = "write"
    /\ pc' = "read"
    /\ UNCHANGED <<stdin, rd, line, stdout, exitCode, upstream>>

\* the write raises: nothing catches it, the interpreter exits with status 1
WriteFault ==
    /\ pc = "print"
    /\ fault' = "write"
    /\ pc' = "exited"
    /\ exitCode' = 1
    /\ UNCHANGED <<stdin, rd, line, stdout, upstream>>

\* the program is started again on `text`; the finished run is kept
Rerun(text) ==
    /\ pc = "exited"
    /\ exitCode = 0
    /\ upstream = <<>>
    /\ upstream' = <<[in |-> stdin, out |-> stdout]>>
    /\ stdin' = text
    /\ rd' = 0
    /\ line' = <<>>
    /\ stdout' = <<>>
    /\ pc' = "read"
    /\ exitCode' = -1
    /\ fault' = "none"

\* delog | delog: a second process reads what the first wrote
Pipe == Rerun(stdout)

\* a second, unrelated invocation on another input
Restart == \E text \in TwinStreams : Rerun(text)

Run == ReadLine \/ PrintLine \/ ReadEOF

Next == Run \/ ReadFault \/ WriteFault

Spec == Init /\ [][Next]_vars

\* no stream fault; the loop is synchronous, so a run that can step does step
NoFaultSpec == Init /\ [][Run]_vars /\ WF_vars(Run)

LineInit ==
    \/ \E b \in ShortLines \cup LongLines : Start(PrintOut(b))
    \/ \E b \in ShortLines : \E p \in 0..Len(b) : \E o \in Occurrences :
           Start(PrintOut(InsertAt(b, p, o)))

LineNext == Run \/ Pipe

LineSpec == LineInit /\ [][LineNext]_vars

TwinInit == \E text \in TwinStreams : Start(text)

TwinNext == Run \/ Restart

TwinSpec == TwinInit /\ [][TwinNext]_vars

----------------------------------------------------------------------------
(* Vocabulary of the properties, stated without the scanner above *)

\* the positions of the newlines of a text
LFs(t) == {i \in 1..Len(t) : t[i] = LF}

\* the number of lines of a text; an unterminated last line counts
NumLines(t) ==
    Cardinality(LFs(t)) + (IF t # <<>> /\ t[Len(t)] # LF THEN 1 ELSE 0)

LineLast(t, k) ==
    IF k <= Cardinality(LFs(t))
    THEN CHOOSE i \in LFs(t) : Cardinality({j \in LFs(t) : j <= i}) = k
    ELSE Len(t)

LineFirst(t, k) == IF k = 1 THEN 1 ELSE LineLast(t, k - 1) + 1

\* line k of a text, its newline included
NthLine(t, k) == SubSeq(t, LineFirst(t, k), LineLast(t, k))

\* a line without its newline
Body(l) == IF l # <<>> /\ l[Len(l)] = LF THEN SubSeq(l, 1, Len(l) - 1) ELSE l

\* s is ESC [ digits ; digits H, either digit run possibly empty
IsOcc(s) ==
    /\ Len(s) >= 4
    /\ s[1] = ESC
    /\ s[2] = "["
    /\ s[Len(s)] = "H"
    /\ \E k \in 3..(Len(s) - 1) :
          /\ s[k] = ";"
          /\ \A j \in 3..(Len(s) - 1) : j # k => s[j] \in Digits

\* the occurrences of the pattern in s, as <<first, last>> positions
OccSpans(s) ==
    {sp \in {i \in 1..Len(s) : s[i] = ESC} \X {j \in 1..Len(s) : s[j] = "H"} :
        sp[1] < sp[2] /\ IsOcc(SubSeq(s, sp[1], sp[2]))}

\* the positions of s that lie in no occurrence
Unmatched(s) ==
    {k \in 1..Len(s) : \A sp \in OccSpans(s) : k < sp[1] \/ k > sp[2]}

\* the characters of s at the positions P, in their order
Pick(s, P) ==
    [i \in 1..Cardinality(P) |->
        s[CHOOSE p \in P : Cardinality({q \in P : q <= p}) = i]]

\* s from its first to its last character that is no whitespace
Trimmed(s) ==
    LET N == {k \in 1..Len(s) : s[k] \notin Whitespace}
    IN  IF N = {} THEN <<>>
        ELSE SubSeq(s, CHOOSE a \in N : \A k \in N : a <= k,
                       CHOOSE b \in N : \A k \in N : k <= b)

\* s with the span sp cut out
Without(s, sp) == SubSeq(s, 1, sp[1] - 1) \o SubSeq(s, sp[2] + 1, Len(s))

\* the number of print calls completed in a run without fault
Printed == NumLines(SubSeq(stdin, 1, rd)) - (IF pc = "print" THEN 1 ELSE 0)

----------------------------------------------------------------------------
\* C1: every emitted line is the input line with every occurrence of the
\* pattern removed first and leading/trailing whitespace trimmed afterwards,
\* followed by a newline.
RemoveThenTrim ==
    \A k \in 1..NumLines(stdout) :
        NthLine(stdout, k) = PrintOut(Trimmed(Pick(NthLine(stdin, k), Unmatched(NthLine(stdin, k)))))

RemoveThenTrimWitness ==
    /\ upstream = <<>>
    /\ stdin = PrintOut(HelloLine)
    /\ stdout = PrintOut(<<"H", "e", "l", "l", "o", " ", "W", "o", "r", "l", "d">>)

\* C2 (as claimed): the output of the filter, fed through the filter again,
\* comes out unchanged, for every line.
Idempotent == (upstream # <<>> /\ pc = "exited") => stdout = stdin

\* C2 (amended): the output of the filter, fed through the filter again, comes
\* out unchanged whenever that output holds no occurrence of the pattern.
IdempotentWhenNoOccurrenceRemains ==
    (upstream # <<>> /\ pc = "exited" /\ OccSpans(stdin) = {}) => stdout = stdin

IdempotentWitness ==
    /\ upstream # <<>>
    /\ pc = "exited"
    /\ upstream[1].in = PrintOut(HelloLine)
    /\ OccSpans(stdin) = {}
    /\ stdout = stdin

\* C4: a line with no occurrence of the pattern is emitted with only its
\* leading and trailing whitespace removed.
NoOccurrenceOnlyTrimmed ==
    \A k \in 1..NumLines(stdout) :
        OccSpans(NthLine(stdin, k)) = {}
            => NthLine(stdout, k) = PrintOut(Trimmed(NthLine(stdin, k)))

NoOccurrenceWitness ==
    /\ upstream = <<>>
    /\ stdin = PrintOut(PlainLine)
    /\ stdout = PrintOut(<<"p", "l", "a", "i", "n", " ", "t", "e", "x", "t">>)

\* C5: the emitted line is a run of consecutive unmatched characters of the
\* input line, unchanged and in order, and every unmatched character left out
\* before or after that run is whitespace.
UnmatchedKept ==
    \A k \in 1..NumLines(stdout) :
        LET l == NthLine(stdin, k)
            o == Body(NthLine(stdout, k))
            u == Pick(l, Unmatched(l))
        IN  \E d \in 0..(Len(u) - Len(o)) :
                /\ o = SubSeq(u, d + 1, d + Len(o))
                /\ \A p \in 1..Len(u) : (p <= d \/ p > d + Len(o)) => u[p] \in Whitespace

UnmatchedKeptWitness ==
    /\ upstream = <<>>
    /\ stdin = PrintOut(OtherEscapesLine)
    /\ stdout = stdin

\* C6 (as claimed): a line obtained by inserting an occurrence of the pattern
\* anywhere into another line is emitted as that other line is.
AnyInsertionIgnored ==
    \A k \in 1..NumLines(stdout) :
        \A sp \in OccSpans(NthLine(stdin, k)) :
            NthLine(stdout, k) = PrintOut(Clean(Without(NthLine(stdin, k), sp)))

\* C6 (amended): a line obtained by inserting an occurrence of the pattern into
\* another line, at a position that is not strictly inside an occurrence of that
\* other line, is emitted as that other line is.
InsertionOutsideIgnored ==
    \A k \in 1..NumLines(stdout) :
        \A sp \in OccSpans(NthLine(stdin, k)) :
            LET base == Without(NthLine(stdin, k), sp)
            IN  (\A q \in OccSpans(base) : ~(q[1] < sp[1] /\ sp[1] <= q[2]))
                    => NthLine(stdout, k) = PrintOut(Clean(base))

InsertionWitness ==
    /\ upstream = <<>>
    /\ pc = "exited"
    /\ stdin = <<ESC, "[", ";", "H", ESC, "[", "1", ";", "1", "H", LF>>
    /\ stdout = <<LF>>

\* C7: the output is a sequence of lines, one per print call, each ended by
\* one newline and none beginning or ending with a whitespace character.
NoSurroundingWhitespace ==
    /\ stdout # <<>> => stdout[Len(stdout)] = LF
    /\ Cardinality(LFs(stdout)) = Printed
    /\ \A k \in 1..NumLines(stdout) :
          LET b == Body(NthLine(stdout, k))
          IN  b # <<>> => b[1] \notin Whitespace /\ b[Len(b)] \notin Whitespace

NoSurroundingWhitespaceWitness ==
    /\ upstream = <<>>
    /\ stdin = PrintOut(BlankLine)
    /\ stdout = <<LF>>

\* C3: the output lines are the cleaned input lines, in input order, one per
\* input line read; a line whose cleaned form is empty still gives a line.
OrderAndCountKept ==
    /\ \A i \in 1..NumLines(stdout) :
          NthLine(stdout, i) = PrintOut(Clean(NthLine(stdin, i)))
    /\ stdout # <<>> => stdout[Len(stdout)] = LF
    /\ fault = "none" => NumLines(stdout) = Printed
    /\ (pc = "exited" /\ exitCode = 0) => NumLines(stdout) = NumLines(stdin)

OrderAndCountWitness ==
    /\ pc = "exited"
    /\ exitCode = 0
    /\ stdin = TextOf(<<SplitTail, OnlyEscapeLine, BlankLine>>, FALSE)
    /\ stdout = <<"5", "H", "b", LF, LF, LF>>

\* C8: without a stream fault the program ends with status 0, having written
\* exactly as many lines as the input holds (none for the empty input).
TerminatesWithAllLines ==
    <>(/\ pc = "exited"
       /\ exitCode = 0
       /\ NumLines(stdout) = NumLines(stdin)
       /\ stdin = <<>> => stdout = <<>>)

TerminatesWitness ==
    /\ pc = "exited"
    /\ exitCode = 0
    /\ stdin = <<>>
    /\ stdout = <<>>
    /\ rd = 0

\* C9: the step that raises a stream fault ends the program with a status
\* other than 0 and writes nothing; what was written before are the cleaned
\* forms of the first lines read, in order; and no step follows a fault.
FaultIsFinal ==
    [][/\ fault = "none"
       /\ fault' # "none" =>
            /\ pc' = "exited"
            /\ exitCode' > 0
            /\ stdout' = stdout
            /\ NumLines(stdout') <= NumLines(SubSeq(stdin', 1, rd'))
            /\ \A i \in 1..NumLines(stdout') :
                  NthLine(stdout', i) = PrintOut(Clean(NthLine(stdin', i)))]_vars

FaultWitness ==
    /\ fault = "write"
    /\ pc = "exited"
    /\ exitCode = 1
    /\ NumLines(SubSeq(stdin, 1, rd)) = 2
    /\ stdout = PrintOut(<<"H", "e", "l", "l", "o", " ", "W", "o", "r", "l", "d">>)

\* the last m characters of a, followed by the first n of b, are an occurrence
SplitOcc(a, b, m, n) == IsOcc(SubSeq(a, Len(a) - m + 1, Len(a)) \o SubSeq(b, 1, n))

\* C10: two runs whose inputs agree on line i write the same line i, whatever
\* their other lines are; and an occurrence cut in two by a line boundary stays
\* in the output, its head ending one line and its tail starting the next.
LinesIndependent ==
    /\ upstream # <<>> =>
          \A i \in 1..NumLines(stdout) :
              (/\ i <= NumLines(upstream[1].in)
               /\ NthLine(upstream[1].in, i) = NthLine(stdin, i))
                  => NthLine(upstream[1].out, i) = NthLine(stdout, i)
    /\ \A i \in 2..NumLines(stdout) :
          LET a  == Body(NthLine(stdin, i - 1))
              b  == Body(NthLine(stdin, i))
              oa == Body(NthLine(stdout, i - 1))
              ob == Body(NthLine(stdout, i))
          IN  \A m \in 1..Len(a), n \in 1..Len(b) :
                  SplitOcc(a, b, m, n) =>
                      /\ Len(oa) >= m
                      /\ SubSeq(oa, Len(oa) - m + 1, Len(oa)) = SubSeq(a, Len(a) - m + 1, Len(a))
                      /\ Len(ob) >= n
                      /\ SubSeq(ob, 1, n) = SubSeq(b, 1, n)

LinesIndependentWitness ==
    /\ upstream # <<>>
    /\ pc = "exited"
    /\ upstream[1].in = TextOf(<<OnlyEscapeLine, SplitTail>>, TRUE)
    /\ upstream[1].out = <<LF, "5", "H", "b", LF>>
    /\ stdin = TextOf(<<SplitHead, SplitTail>>, TRUE)
    /\ stdout = <<"a", ESC, "[", "1", ";", LF, "5", "H", "b", LF>>

====
